---- MODULE Spec2Model ----
(***************************************************************************)
(* streamprint.h: print(out, args...) and fprint(out, fmt, args...).       *)
(*                                                                         *)
(* Strings are sequences of one-character strings.  A C buffer of a format *)
(* of length len is a sequence of len+1 characters whose last one is the   *)
(* terminator NUL; a char* into it is an index 1..len+1 (C offset i-1), and *)
(* nullptr is Null.  The sink is the formatting state of the std::ostream  *)
(* plus the log of the operations the current call has applied to it.      *)
(***************************************************************************)
EXTENDS Integers, Sequences, FiniteSets

VARIABLES pc, kind, fmt, buf, f, nargs, next, out, entry, log, passes,
          optstrs, outs, applied

vars == <<pc, kind, fmt, buf, f, nargs, next, out, entry, log, passes,
          optstrs, outs, applied>>

callVars == <<pc, kind, fmt, buf, f, nargs, next, out, entry, log, passes>>
optVars == <<optstrs, outs, applied>>

(* Bounds of the model. *)
MaxLen == 4
MaxArgs == 2
MaxDirs == 3

Null == 0
NUL == "NUL"
SOH == "SOH"

FmtChars == {"{", "}", "a", "w", "5"}
Formats == UNION {[1..n -> FmtChars] : n \in 0..MaxLen}

Min(S) == CHOOSE x \in S : \A y \in S : x <= y

(* The state a std::basic_ios has after init(), as far as setOpts can      *)
(* change it.                                                              *)
InitOut == [width |-> 0, precision |-> 6, notation |-> "default",
            fill |-> " ", align |-> "none"]

NoEntry == [out |-> InitOut, fmt |-> <<>>]

(* ---- the C library, on buffers ---------------------------------------- *)

(* The index of the terminator that ends the C string starting at i. *)
StrEnd(s, i) == Min({j \in i..Len(s) : s[j] = NUL})

(* strchr(s + i, c) for a character c other than the terminator. *)
Strchr(s, i, c) ==
  LET e == StrEnd(s, i)
      hits == {j \in i..e : s[j] = c}
  IN IF hits = {} THEN Null ELSE Min(hits)

(* The characters of the C string starting at i. *)
CStr(s, i) == SubSeq(s, i, StrEnd(s, i) - 1)

Digits == {"0", "1", "2", "3", "4", "5", "6", "7", "8", "9"}
DigitVal(c) ==
  CASE c = "0" -> 0 [] c = "1" -> 1 [] c = "2" -> 2 [] c = "3" -> 3
    [] c = "4" -> 4 [] c = "5" -> 5 [] c = "6" -> 6 [] c = "7" -> 7
    [] c = "8" -> 8 [] c = "9" -> 9

RECURSIVE AtoiDigits(_, _, _)
AtoiDigits(s, i, acc) ==
  IF i <= Len(s) /\ s[i] \in Digits
  THEN AtoiDigits(s, i + 1, 10 * acc + DigitVal(s[i]))
  ELSE acc

RECURSIVE SkipSpace(_, _)
SkipSpace(s, i) == IF i <= Len(s) /\ s[i] = " " THEN SkipSpace(s, i + 1) ELSE i

(* atoi(s + i): leading blanks, an optional sign, then the digits. *)
Atoi(s, i) ==
  LET j == SkipSpace(s, i)
  IN IF j <= Len(s) /\ s[j] = "-" THEN 0 - AtoiDigits(s, j + 1, 0)
     ELSE IF j <= Len(s) /\ s[j] = "+" THEN AtoiDigits(s, j + 1, 0)
     ELSE AtoiDigits(s, j, 0)

(* The last index atoi(s + i) reads: the first character it cannot use. *)
RECURSIVE DigitsEnd(_, _)
DigitsEnd(s, i) == IF i <= Len(s) /\ s[i] \in Digits THEN DigitsEnd(s, i + 1) ELSE i

AtoiEnd(s, i) ==
  LET j == SkipSpace(s, i)
  IN IF j <= Len(s) /\ s[j] \in {"-", "+"} THEN DigitsEnd(s, j + 1) ELSE DigitsEnd(s, j)

(* *p = c, where p may be null (the code guards each store). *)
Poke(s, p, c) == IF p = Null THEN s ELSE [s EXCEPT ![p] = c]

(* ---- detail::setOpts -------------------------------------------------- *)

(* The setopt lambda: the position handed to f, or Null when f is not      *)
(* called.                                                                 *)
setopt(s, optstr, opt) ==
  IF opt > optstr /\ s[opt - 1] = "f"
  THEN LET n == Strchr(s, opt + 1, s[opt])
       IN IF n # Null THEN n + 1 ELSE Null
  ELSE opt + 1

SetWidth(o, s, optstr) ==
  LET opt == Strchr(s, optstr, "w")
      a == IF opt = Null THEN Null ELSE setopt(s, optstr, opt)
  IN IF a = Null THEN o ELSE [o EXCEPT !.width = Atoi(s, a)]

SetPrecision(o, s, optstr) ==
  LET opt == Strchr(s, optstr, "p")
      a == IF opt = Null THEN Null ELSE setopt(s, optstr, opt)
  IN IF a = Null THEN o ELSE [o EXCEPT !.precision = Atoi(s, a)]

SetNotation(o, s, optstr) ==
  LET opt == Strchr(s, optstr, "m")
      a == IF opt = Null THEN Null ELSE setopt(s, optstr, opt)
  IN IF a = Null THEN o
     ELSE CASE s[a] = "x" -> [o EXCEPT !.notation = "fixed"]
            [] s[a] = "s" -> [o EXCEPT !.notation = "scientific"]
            [] s[a] = "h" -> [o EXCEPT !.notation = "hexfloat"]
            [] s[a] = "d" -> [o EXCEPT !.notation = "default"]
            [] OTHER -> o

SetFill(o, s, optstr) ==
  LET opt == Strchr(s, optstr, "f")
  IN IF opt = Null THEN o ELSE [o EXCEPT !.fill = s[opt + 1]]

SetLeft(o, s, optstr) ==
  IF Strchr(s, optstr, "L") # Null THEN [o EXCEPT !.align = "left"] ELSE o

SetRight(o, s, optstr) ==
  IF Strchr(s, optstr, "R") # Null THEN [o EXCEPT !.align = "right"] ELSE o

SetOpts(o, s, optstr) ==
  SetRight(SetLeft(SetFill(SetNotation(SetPrecision(SetWidth(o, s, optstr),
    s, optstr), s, optstr), s, optstr), s, optstr), s, optstr)

(* The buffer indices one search of setOpts reads: the strchr scan, the    *)
(* look-behind *(opt - 1), the second strchr scan and the argument.        *)
OptReads(s, optstr, c, numeric) ==
  LET opt == Strchr(s, optstr, c)
      scan == optstr..(IF opt = Null THEN StrEnd(s, optstr) ELSE opt)
      back == IF opt # Null /\ opt > optstr THEN {opt - 1} ELSE {}
      again == IF opt # Null /\ opt > optstr /\ s[opt - 1] = "f"
               THEN LET n == Strchr(s, opt + 1, s[opt])
                    IN (opt + 1)..(IF n = Null THEN StrEnd(s, opt + 1) ELSE n)
               ELSE {}
      a == IF opt = Null THEN Null ELSE setopt(s, optstr, opt)
      arg == IF a = Null THEN {}
             ELSE IF numeric THEN a..AtoiEnd(s, a) ELSE {a}
  IN scan \cup back \cup again \cup arg

SetOptsReads(s, optstr) ==
  LET fo == Strchr(s, optstr, "f")
  IN OptReads(s, optstr, "w", TRUE) \cup OptReads(s, optstr, "p", TRUE)
     \cup OptReads(s, optstr, "m", FALSE)
     \cup (optstr..(IF fo = Null THEN StrEnd(s, optstr) ELSE fo + 1))
     \cup (optstr..(IF Strchr(s, optstr, "L") = Null THEN StrEnd(s, optstr)
                    ELSE Strchr(s, optstr, "L")))
     \cup (optstr..(IF Strchr(s, optstr, "R") = Null THEN StrEnd(s, optstr)
                    ELSE Strchr(s, optstr, "R")))

(* ---- the sink ----------------------------------------------------------- *)

(* One entry of the log of sink operations: k is "lit" (out << text of the *)
(* format), "opt" (the manipulators of one setOpts call) or "val" (out <<  *)
(* value number at); st is the formatting state the text or value is       *)
(* written under, or for "opt" the state the manipulators leave; pass is   *)
(* the number of the checkSetOpts call, 0 in print_h.                       *)
Entry(k, pass, at, text, st) ==
  [k |-> k, pass |-> pass, at |-> at, text |-> text, st |-> st]

(* What operator<< leaves of the formatting state: width(0). *)
Inserted(o) == [o EXCEPT !.width = 0]

(* out << first(args...) for value number i. *)
WriteValue(l, o, pass, i) == Append(l, Entry("val", pass, i, <<>>, o))

(* ---- detail::checkSetOpts --------------------------------------------- *)

TerminateCloseOnly(s, b1, b2) == Poke(s, b2, NUL)

(* The braces found are overwritten with char(0), each under its null     *)
(* check.                                                                  *)
Terminate(s, b1, b2) == Poke(Poke(s, b1, NUL), b2, NUL)

(* The braces found are then overwritten with char(1), each under its     *)
(* null check.                                                             *)
Restore(s, b1, b2) == Poke(Poke(s, b1, SOH), b2, SOH)

NextCursorStay(c, b2) == IF b2 = Null THEN c ELSE b2 + 1

NextCursorAtBrace(c, b2) == b2

(* f = b2 == nullptr ? b2 : b2 + 1, for the cursor c passed in. *)
NextCursor(c, b2) == IF b2 = Null THEN b2 ELSE b2 + 1

SinkOpsOptsFirst(o, s1, c, b1, n) ==
  LET o1 == IF b1 # Null THEN SetOpts(o, s1, b1 + 1) ELSE o
      opts == IF b1 # Null THEN <<Entry("opt", n, b1 + 1, <<>>, o1)>> ELSE <<>>
  IN [out |-> Inserted(o1), log |-> opts \o <<Entry("lit", n, c, CStr(s1, c), o1)>>]

(* out << f; if (b1 != nullptr) setOpts(out, b1 + 1): the sink state left  *)
(* and the log entries added, on the buffer s1 with the braces terminated. *)
SinkOps(o, s1, c, b1, n) ==
  LET o2 == IF b1 # Null THEN SetOpts(Inserted(o), s1, b1 + 1) ELSE Inserted(o)
      opts == IF b1 # Null THEN <<Entry("opt", n, b1 + 1, <<>>, o2)>> ELSE <<>>
  IN [out |-> o2, log |-> <<Entry("lit", n, c, CStr(s1, c), o)>> \o opts]

(* The buffer indices one checkSetOpts call reads or writes. *)
PassReads(s, s1, c, b1, b2) ==
  (c..StrEnd(s, c)) \cup (c..StrEnd(s1, c))
    \cup (IF b1 # Null THEN {b1} \cup SetOptsReads(s1, b1 + 1) ELSE {})
    \cup (IF b2 # Null THEN {b2} ELSE {})

(* The result of checkSetOpts(out, f) as call number n, with cursor c on   *)
(* buffer s and sink state o: the sink state, buffer and cursor it leaves, *)
(* the log entries it adds, and the record of the pass.                    *)
CheckSetOpts(o, s, c, n) ==
  IF c = Null
  THEN [out |-> o, buf |-> s, f |-> c, log |-> <<>>,
        pass |-> [fin |-> c, fout |-> c, b1 |-> Null, b2 |-> Null, reads |-> {}]]
  ELSE
    LET b1 == Strchr(s, c, "{")
        b2 == Strchr(s, c, "}")
        s1 == Terminate(s, b1, b2)
        ops == SinkOps(o, s1, c, b1, n)
        fout == NextCursor(c, b2)
    IN [out |-> ops.out, buf |-> Restore(s1, b1, b2), f |-> fout, log |-> ops.log,
        pass |-> [fin |-> c, fout |-> fout, b1 |-> b1, b2 |-> b2,
                  reads |-> PassReads(s, s1, c, b1, b2)]]

(* ---- the state machine of the calls ----------------------------------- *)

Remaining == nargs - next + 1

Init ==
  /\ pc = "idle"
  /\ kind = "none"
  /\ fmt = <<>>
  /\ buf = <<>>
  /\ f = Null
  /\ nargs = 0
  /\ next = 1
  /\ out = InitOut
  /\ entry = NoEntry
  /\ log = <<>>
  /\ passes = <<>>
  /\ optstrs = <<>>
  /\ outs = <<>>
  /\ applied = {}

Enter(k, fm, n, b, c, to) ==
  /\ pc' = to
  /\ kind' = k
  /\ fmt' = fm
  /\ buf' = b
  /\ f' = c
  /\ nargs' = n
  /\ next' = 1
  /\ entry' = [out |-> out, fmt |-> fm]
  /\ log' = <<>>
  /\ passes' = <<>>
  /\ UNCHANGED out

(* print(out, args...) *)
print ==
  /\ pc = "idle"
  /\ \E n \in 0..MaxArgs : Enter("print", <<>>, n, <<>>, Null, "print_h")
  /\ UNCHANGED optVars

(* fprint(out, const char (&f)[N], v...) with N > 1: memcpy to fcpy. *)
FprintLiteral ==
  /\ pc = "idle"
  /\ \E fm \in Formats, n \in 0..MaxArgs :
       /\ Len(fm) + 1 > 1
       /\ Enter("fprint_literal", fm, n, Append(fm, NUL), 1, "fprint_h")
  /\ UNCHANGED optVars

(* fprint(out, const char (&f)[N], v...) with N == 1: print_h. *)
FprintEmpty ==
  /\ pc = "idle"
  /\ \E n \in 0..MaxArgs : Enter("fprint_empty", <<>>, n, <<>>, Null, "print_h")
  /\ UNCHANGED optVars

(* fprint(out, C f, v...) for a pointer to char: slen = strlen(f) + 1. *)
FprintPointer ==
  /\ pc = "idle"
  /\ \E fm \in Formats, n \in 0..MaxArgs :
       LET slen == Len(fm) + 1
       IN IF slen # 0
          THEN Enter("fprint_pointer", fm, n, Append(fm, NUL), 1, "fprint_h")
          ELSE Enter("fprint_pointer", fm, n, <<>>, Null, "print_h")
  /\ UNCHANGED optVars

(* print_h with more than one argument. *)
PrintHMany ==
  /\ pc = "print_h"
  /\ Remaining > 1
  /\ log' = WriteValue(log, out, 0, next)
  /\ out' = Inserted(out)
  /\ next' = next + 1
  /\ UNCHANGED <<pc, kind, fmt, buf, f, nargs, entry, passes, optVars>>

(* print_h with one argument. *)
PrintHOne ==
  /\ pc = "print_h"
  /\ Remaining = 1
  /\ log' = WriteValue(log, out, 0, next)
  /\ out' = Inserted(out)
  /\ next' = next + 1
  /\ pc' = "done"
  /\ UNCHANGED <<kind, fmt, buf, f, nargs, entry, passes, optVars>>

(* print_h with no argument. *)
PrintHNone ==
  /\ pc = "print_h"
  /\ Remaining = 0
  /\ pc' = "done"
  /\ UNCHANGED <<kind, fmt, buf, f, nargs, next, out, entry, log, passes, optVars>>

(* fprint_h with more than one argument. *)
FprintHMany ==
  /\ pc = "fprint_h"
  /\ Remaining > 1
  /\ LET n == Len(passes) + 1
         r == CheckSetOpts(out, buf, f, n)
     IN /\ f' = r.f
        /\ buf' = r.buf
        /\ log' = WriteValue(log \o r.log, r.out, n, next)
        /\ out' = Inserted(r.out)
        /\ passes' = Append(passes, r.pass)
  /\ next' = next + 1
  /\ UNCHANGED <<pc, kind, fmt, nargs, entry, optVars>>

(* fprint_h with one argument. *)
FprintHOne ==
  /\ pc = "fprint_h"
  /\ Remaining = 1
  /\ LET n == Len(passes) + 1
         r == CheckSetOpts(out, buf, f, n)
     IN /\ f' = r.f
        /\ buf' = r.buf
        /\ log' = WriteValue(log \o r.log, r.out, n, next)
        /\ out' = Inserted(r.out)
        /\ passes' = Append(passes, r.pass)
  /\ next' = next + 1
  /\ UNCHANGED <<pc, kind, fmt, nargs, entry, optVars>>

FprintHNoneNoPass ==
  /\ pc = "fprint_h"
  /\ Remaining = 0
  /\ pc' = "done"
  /\ UNCHANGED <<kind, fmt, buf, f, nargs, next, out, entry, log, passes, optVars>>

(* fprint_h with no argument: the last call of the recursion. *)
FprintHNone ==
  /\ pc = "fprint_h"
  /\ Remaining = 0
  /\ LET n == Len(passes) + 1
         r == CheckSetOpts(out, buf, f, n)
     IN /\ f' = r.f
        /\ buf' = r.buf
        /\ log' = log \o r.log
        /\ out' = r.out
        /\ passes' = Append(passes, r.pass)
  /\ pc' = "done"
  /\ UNCHANGED <<kind, fmt, nargs, next, entry, optVars>>

(* return out: fcpy goes out of scope, or is deleted. *)
Return ==
  /\ pc = "done"
  /\ pc' = "idle"
  /\ kind' = "none"
  /\ fmt' = <<>>
  /\ buf' = <<>>
  /\ f' = Null
  /\ nargs' = 0
  /\ next' = 1
  /\ entry' = NoEntry
  /\ log' = <<>>
  /\ passes' = <<>>
  /\ UNCHANGED <<out, optVars>>

Next ==
  \/ print
  \/ FprintLiteral
  \/ FprintEmpty
  \/ FprintPointer
  \/ PrintHMany
  \/ PrintHOne
  \/ PrintHNone
  \/ FprintHMany
  \/ FprintHOne
  \/ FprintHNone
  \/ Return

Spec == Init /\ [][Next]_vars

(* ---- what the log says ------------------------------------------------ *)

IsFprintH == kind \in {"fprint_literal", "fprint_pointer"}
IsFprint == kind \in {"fprint_literal", "fprint_pointer", "fprint_empty"}

(* A cell of sink content: a character written, or value number val        *)
(* written under formatting state st.                                      *)
CharCell(c) == [ch |-> c, val |-> 0, st |-> InitOut]
ValueCell(i, st) == [ch |-> "", val |-> i, st |-> st]

Cells(text) == [j \in 1..Len(text) |-> CharCell(text[j])]
ValueCells(from, to) == [j \in 1..(to - from + 1) |-> ValueCell(from + j - 1, InitOut)]

(* What the call handed to the sink: the characters of the literal writes  *)
(* and the values, in the order written.                                   *)
RECURSIVE Content(_)
Content(l) ==
  IF l = <<>> THEN <<>>
  ELSE LET e == Head(l)
       IN (CASE e.k = "lit" -> Cells(e.text)
             [] e.k = "val" -> <<ValueCell(e.at, InitOut)>>
             [] OTHER -> <<>>) \o Content(Tail(l))

(* What the sink emits for the log: a literal write is padded with the     *)
(* fill character to the width it is written under, a value is kept with   *)
(* the formatting state it is written under.                               *)
Padding(e) ==
  LET n == e.st.width - Len(e.text)
  IN IF n > 0 THEN [j \in 1..n |-> CharCell(e.st.fill)] ELSE <<>>

RECURSIVE Rendered(_)
Rendered(l) ==
  IF l = <<>> THEN <<>>
  ELSE LET e == Head(l)
       IN (CASE e.k = "lit" -> IF e.st.align = "left"
                               THEN Cells(e.text) \o Padding(e)
                               ELSE Padding(e) \o Cells(e.text)
             [] e.k = "val" -> <<ValueCell(e.at, e.st)>>
             [] OTHER -> <<>>) \o Rendered(Tail(l))

IsVal(e) == e.k = "val"
IsLit(e) == e.k = "lit"

(* The values are written once each, in argument order. *)
ValuesInOrder(l, n) ==
  LET v == SelectSeq(l, IsVal)
  IN Len(v) = n /\ \A i \in 1..n : v[i].at = i

Braces == {"{", "}"}
HasChar(fm, c) == \E p \in 1..Len(fm) : fm[p] = c

(* The positions of fm at or after from that hold literal text: not a      *)
(* brace, and not between a "{" at or after from and the next "}".         *)
LitPositions(fm, from) ==
  {p \in from..Len(fm) :
     /\ fm[p] \notin Braces
     /\ ~ \E q \in from..(p - 1) :
            fm[q] = "{" /\ \A r \in (q + 1)..(p - 1) : fm[r] # "}"}

IsBrace(c) == c \in Braces

(* The braces of fm pair up: they alternate "{", "}", ..., "{", "}". *)
BracesPaired(fm) ==
  LET bs == SelectSeq(fm, IsBrace)
  IN /\ Len(bs) % 2 = 0
     /\ \A j \in 1..Len(bs) : bs[j] = (IF j % 2 = 1 THEN "{" ELSE "}")

(* The number of placeholders of a format whose braces pair up. *)
NumPlaceholders(fm) == Cardinality({p \in 1..Len(fm) : fm[p] = "{"})

(* The positions of the format a literal write covers. *)
Covered(e) == e.at..(e.at + Len(e.text) - 1)

(* C1, on the format strings whose braces pair up: when the values run out *)
(* before the format string does, the last pass writes all the literal     *)
(* text that remains after the cursor, not only the text up to the next    *)
(* brace.                                                                  *)
C1_TrailingTextFlushed ==
  (pc = "done" /\ IsFprintH /\ BracesPaired(fmt)
     /\ passes[Len(passes)].fin # Null) =>
    \A p \in LitPositions(fmt, passes[Len(passes)].fin) :
      \E j \in 1..Len(log) :
        /\ log[j].k = "lit"
        /\ log[j].pass = Len(passes)
        /\ p \in Covered(log[j])

RECURSIVE Substituted(_, _, _, _)
Substituted(fm, p, inside, v) ==
  IF p > Len(fm) THEN <<>>
  ELSE IF inside
       THEN Substituted(fm, p + 1, fm[p] # "}", v)
       ELSE IF fm[p] = "{"
            THEN <<ValueCell(v, InitOut)>> \o Substituted(fm, p + 1, TRUE, v + 1)
            ELSE <<CharCell(fm[p])>> \o Substituted(fm, p + 1, FALSE, v)

(* No literal text is written from the first leftover value on. *)
NoTextAfterValue(l, k) ==
  \A i, j \in 1..Len(l) :
    (i < j /\ l[i].k = "val" /\ l[i].at > k /\ l[j].k = "lit") => l[j].text = <<>>

PlainOutput(o, n) == [i \in 1..n |-> ValueCell(i, IF i = 1 THEN o ELSE Inserted(o))]
PlainFinal(o, n) == IF n > 0 THEN Inserted(o) ELSE o

(* C4: for the empty format string, fprint emits what print emits on the   *)
(* same values and leaves the sink in the same formatting state, both as   *)
(* the empty literal and as a run-time pointer to an empty string.         *)
C4_EmptyFormatEqualsPrint ==
  (pc = "done" /\ fmt = <<>>) =>
    /\ Rendered(log) = PlainOutput(entry.out, nargs)
    /\ out = PlainFinal(entry.out, nargs)

C7_WidthConsumedByOwnValue ==
  (IsFprintH /\ entry.out.width = 0) =>
    \A j \in 1..Len(log) :
      /\ log[j].k = "lit" => log[j].st.width = 0
      /\ log[j].k = "opt" =>
           /\ j > 1 /\ log[j - 1].k = "lit" /\ log[j - 1].pass = log[j].pass
           /\ j < Len(log) => (log[j + 1].k = "val" /\ log[j + 1].pass = log[j].pass)
           /\ (j = Len(log) /\ pc = "fprint_h") => FALSE
      /\ log[j].k = "val" =>
           /\ j > 1
           /\ log[j - 1].k = "opt" => log[j].st = log[j - 1].st
           /\ log[j - 1].k # "opt" => log[j].st.width = 0

C7_Witness ==
  /\ pc = "done"
  /\ entry.out.width = 0
  /\ fmt = <<"{", "w", "5", "}">>
  /\ nargs = 2
  /\ log[2].k = "opt" /\ log[3].k = "val" /\ log[3].st.width = 5
  /\ log[Len(log)].k = "val" /\ log[Len(log)].st.width = 0

(* C9: every character written as literal text is the character at the     *)
(* same position of the caller's format string.                            *)
C9_LiteralVerbatim ==
  IsFprintH =>
    \A j \in 1..Len(log) :
      log[j].k = "lit" =>
        \A i \in 1..Len(log[j].text) : log[j].text[i] = fmt[log[j].at + i - 1]

Kinds == {"w", "p", "m", "f", "L", "R"}
FillChars == {"*", " ", "0", "w", "p", "m", "f", "L", "R"}

(* The texts of a directive of kind k. *)
Texts(k) ==
  CASE k = "w" -> {<<"w", "5">>, <<"w", "1", "2">>}
    [] k = "p" -> {<<"p", "3">>}
    [] k = "m" -> {<<"m", a>> : a \in {"x", "s", "h", "d"}}
    [] k = "f" -> {<<"f", c>> : c \in FillChars}
    [] k = "L" -> {<<"L">>}
    [] k = "R" -> {<<"R">>}

AllTexts == UNION {Texts(k) : k \in Kinds}

(* One text for each kind of K. *)
Choices(K) == {ch \in [K -> AllTexts] : \A k \in K : ch[k] \in Texts(k)}

(* The orders of the kinds of K. *)
Orders(K) ==
  {ord \in [1..Cardinality(K) -> K] :
     \A i, j \in 1..Cardinality(K) : ord[i] = ord[j] => i = j}

RECURSIVE Body(_, _, _)
Body(ch, ord, i) ==
  IF i > Len(ord) THEN <<>> ELSE ch[ord[i]] \o Body(ch, ord, i + 1)

(* The buffer checkSetOpts hands to setOpts for the format "{body}": both  *)
(* braces overwritten with the terminator, optstr at index 2.              *)
PlaceholderBuf(body) == Terminate(<<"{">> \o body \o <<"}", NUL>>, 1, Len(body) + 2)

InitOpts ==
  /\ pc = "setOpts"
  /\ kind = "none"
  /\ fmt = <<>>
  /\ buf = <<>>
  /\ f = Null
  /\ nargs = 0
  /\ next = 1
  /\ out = InitOut
  /\ entry = NoEntry
  /\ log = <<>>
  /\ passes = <<>>
  /\ \E K \in SUBSET Kinds :
       /\ Cardinality(K) <= MaxDirs
       /\ \E ch \in Choices(K), oa \in Orders(K), ob \in Orders(K) :
            optstrs = <<PlaceholderBuf(Body(ch, oa, 1)), PlaceholderBuf(Body(ch, ob, 1))>>
  /\ outs = <<InitOut, InitOut>>
  /\ applied = {}

(* setOpts(out, b1 + 1) on the placeholder in the first order. *)
SetOptsFirst ==
  /\ pc = "setOpts"
  /\ 1 \notin applied
  /\ outs' = [outs EXCEPT ![1] = SetOpts(outs[1], optstrs[1], 2)]
  /\ applied' = applied \cup {1}
  /\ UNCHANGED <<callVars, optstrs>>

(* setOpts(out, b1 + 1) on the placeholder in the second order. *)
SetOptsSecond ==
  /\ pc = "setOpts"
  /\ 2 \notin applied
  /\ outs' = [outs EXCEPT ![2] = SetOpts(outs[2], optstrs[2], 2)]
  /\ applied' = applied \cup {2}
  /\ UNCHANGED <<callVars, optstrs>>

NextOpts ==
  \/ SetOptsFirst
  \/ SetOptsSecond

SpecOpts == InitOpts /\ [][NextOpts]_vars

(* C5: every order of the directives of a placeholder, each kind at most   *)
(* once and with any fill character, leaves the sink in the same           *)
(* formatting state.                                                       *)
C5_DirectiveOrderIndependent ==
  applied = {1, 2} => outs[1] = outs[2]

(* C8: the placeholder {f<c>} sets the fill character to c and changes     *)
(* nothing else of the formatting state, also when c is a directive        *)
(* letter.                                                                 *)
C8_FillOnlySetsFill ==
  \A c \in FillChars :
    (1 \in applied /\ optstrs[1] = PlaceholderBuf(<<"f", c>>)) =>
      outs[1] = [InitOut EXCEPT !.fill = c]

====
